---- MODULE Spec2Model ----
(***************************************************************************)
(* The event handler of the wgpu "hello triangle" programs                 *)
(* (src/src/lib.rs, with a vertex buffer, and src/window/src/lib.rs,       *)
(* without one): State::resize, State::render and the closure that run()   *)
(* passes to EventLoop::run.                                               *)
(*                                                                         *)
(* One step of the model is one call of the closure with one event, run    *)
(* to completion.  The windowing library delivers the events of one loop   *)
(* iteration in the order                                                  *)
(*     window events ... MainEventsCleared, RedrawRequested ...,           *)
(*     RedrawEventsCleared                                                 *)
(* and only looks at *control_flow after RedrawEventsCleared, so the       *)
(* events left in the iteration are still handed to the closure after the  *)
(* closure has stored ControlFlow::Exit.                                   *)
(***************************************************************************)
EXTENDS Integers, Sequences, FiniteSets

\* Largest window dimension an event carries (dimensions are 0..MaxDim).
MaxDim == 2

VARIABLES
    variant,           \* which program: "src" (src/src/lib.rs) or "window"
    state,             \* struct State: size, config, num_vertices
    surface,           \* the configuration the surface was last configured with
    control_flow,      \* *control_flow: "Poll" or "Exit"
    phase,             \* position of the library in its loop iteration
    redraw_requested,  \* window.request_redraw() is pending
    event,             \* the event the closure handled last
    result,            \* what State::render returned in that call ("None": not called)
    calls,             \* the device, surface and window calls made in that call
    needs_reconfigure, \* render returned Lost and the surface was not configured since
    close_seen,        \* a close request or an escape press has been handled
    oom_seen           \* State::render has returned OutOfMemory

vars == <<variant, state, surface, control_flow, phase, redraw_requested,
          event, result, calls, needs_reconfigure, close_seen, oom_seen>>

----------------------------------------------------------------------------
\* Data

Variants == {"src", "window"}

\* window.id() and the id of some other window
WindowIds == {"window", "other"}

Dims == 0 .. MaxDim

\* surface.get_supported_formats(&adapter): the first entry is taken
SupportedFormats == {"Bgra8UnormSrgb", "Rgba8UnormSrgb"}

\* Result<SurfaceTexture, SurfaceError> of surface.get_current_texture()
AcquireResults == {"Ok", "Lost", "OutOfMemory", "Timeout", "Outdated"}

\* const VERTICES, positions in units of 0.5 (x, y; z is 0 everywhere)
VERTICES ==
    << [pos |-> <<0, 1>>,   color |-> <<1, 0, 0>>],
       [pos |-> <<-1, -1>>, color |-> <<0, 1, 0>>],
       [pos |-> <<1, -1>>,  color |-> <<0, 0, 1>>] >>

\* primitive: wgpu::PrimitiveState of the render pipeline
render_pipeline ==
    [topology |-> "TriangleList", front_face |-> "Ccw", cull_mode |-> "Back"]

\* The events the library hands to the closure
WindowEvents ==
         [kind : {"CloseRequested", "CursorMoved"}, window_id : WindowIds]
    \cup [kind : {"KeyboardInput"}, window_id : WindowIds,
          state : {"Pressed", "Released"},
          virtual_keycode : {"Escape", "Space", "None"}]
    \cup [kind : {"Resized", "ScaleFactorChanged"}, window_id : WindowIds,
          width : Dims, height : Dims]

----------------------------------------------------------------------------
\* Pure parts of the code.  A "world" is the record
\*   [state, surface, calls, control_flow, redraw_requested, result]
\* that one call of the closure reads and updates.

\* PhysicalSize::cast::<u32>(): each field goes u32 -> f64 -> u32.  f64 holds
\* every u32 exactly, so the saturation of the conversion back at u32::MAX is
\* never reached from a u32; the saturation at 0 is kept.
from_f64(f) == IF f < 0 THEN 0 ELSE f

cast(sz) == [width |-> from_f64(sz.width), height |-> from_f64(sz.height)]

Call(w, c) == [w EXCEPT !.calls = Append(@, c)]

\* State::resize with || for && in its guard
resize_either_positive(w, new_size) ==
    IF new_size.width > 0 \/ new_size.height > 0
    THEN LET cfg == [w.state.config EXCEPT !.width = new_size.width,
                                           !.height = new_size.height]
             w1 == [w EXCEPT !.state.size = new_size, !.state.config = cfg,
                             !.surface = cfg]
         IN Call(w1, [op |-> "configure", width |-> cfg.width,
                      height |-> cfg.height])
    ELSE w

\* State::resize without its guard
resize_unguarded(w, new_size) ==
    LET cfg == [w.state.config EXCEPT !.width = new_size.width,
                                      !.height = new_size.height]
        w1 == [w EXCEPT !.state.size = new_size, !.state.config = cfg,
                        !.surface = cfg]
    IN Call(w1, [op |-> "configure", width |-> cfg.width,
                 height |-> cfg.height])

\* State::resize without  self.size = new_size
resize_size_not_stored(w, new_size) ==
    IF new_size.width > 0 /\ new_size.height > 0
    THEN LET cfg == [w.state.config EXCEPT !.width = new_size.width,
                                           !.height = new_size.height]
             w1 == [w EXCEPT !.state.config = cfg, !.surface = cfg]
         IN Call(w1, [op |-> "configure", width |-> cfg.width,
                      height |-> cfg.height])
    ELSE w

\* State::resize
resize(w, new_size) ==
    IF new_size.width > 0 /\ new_size.height > 0
    THEN LET cfg == [w.state.config EXCEPT !.width = new_size.width,
                                           !.height = new_size.height]
             w1 == [w EXCEPT !.state.size = new_size, !.state.config = cfg,
                             !.surface = cfg]
         IN Call(w1, [op |-> "configure", width |-> cfg.width,
                      height |-> cfg.height])
    ELSE w

\* State::input
input(w, ev) == FALSE

\* State::update
update(w) == w

\* The render pass with the two ranges of draw() exchanged
render_pass_ranges_swapped(v, w) ==
    LET w1 == Call(w, [op |-> "begin_render_pass", load |-> "Clear"])
        w2 == Call(w1, [op |-> "set_pipeline", pipeline |-> render_pipeline])
        w3 == IF v = "src" THEN Call(w2, [op |-> "set_vertex_buffer", slot |-> 0])
                           ELSE w2
        n  == IF v = "src" THEN w.state.num_vertices ELSE 3
    IN Call(w3, [op |-> "draw", vertices |-> <<0, 1>>, instances |-> <<0, n>>])

\* The render pass of State::render: what is recorded between
\* begin_render_pass and the end of the pass.
render_pass(v, w) ==
    LET w1 == Call(w, [op |-> "begin_render_pass", load |-> "Clear"])
        w2 == Call(w1, [op |-> "set_pipeline", pipeline |-> render_pipeline])
        w3 == IF v = "src" THEN Call(w2, [op |-> "set_vertex_buffer", slot |-> 0])
                           ELSE w2
        n  == IF v = "src" THEN w.state.num_vertices ELSE 3
    IN Call(w3, [op |-> "draw", vertices |-> <<0, n>>, instances |-> <<0, 1>>])

\* State::render without the ? on get_current_texture(): it goes on to
\* submit and present whatever the acquisition returned
render_ignoring_acquire_error(v, w, acq) ==
    LET w0 == Call(w, [op |-> "get_current_texture", ret |-> acq])
        w1 == Call(w0, [op |-> "create_view"])
        w2 == Call(w1, [op |-> "create_command_encoder"])
        w3 == render_pass(v, w2)
        w4 == Call(w3, [op |-> "submit", buffers |-> 1])
        w5 == Call(w4, [op |-> "present"])
    IN [w5 EXCEPT !.result = acq]

\* State::render; acq is what surface.get_current_texture() returns
render(v, w, acq) ==
    LET w0 == Call(w, [op |-> "get_current_texture", ret |-> acq])
    IN IF acq # "Ok"
       THEN [w0 EXCEPT !.result = acq]
       ELSE LET w1 == Call(w0, [op |-> "create_view"])
                w2 == Call(w1, [op |-> "create_command_encoder"])
                w3 == render_pass(v, w2)
                w4 == Call(w3, [op |-> "submit", buffers |-> 1])
                w5 == Call(w4, [op |-> "present"])
            IN [w5 EXCEPT !.result = "Ok"]

\* The match on state.render() without the Lost arm: Lost is only logged
on_render_result_lost_logged(w) ==
    CASE w.result = "Ok" -> w
      [] w.result = "OutOfMemory" -> [w EXCEPT !.control_flow = "Exit"]
      [] OTHER -> Call(w, [op |-> "eprintln", err |-> w.result])

\* The match on state.render() with every error but Lost leaving the loop
on_render_result_errors_exit(w) ==
    CASE w.result = "Ok" -> w
      [] w.result = "Lost" -> resize(w, w.state.size)
      [] OTHER -> [w EXCEPT !.control_flow = "Exit"]

\* The match on state.render() in the RedrawRequested arm
on_render_result(w) ==
    CASE w.result = "Ok" -> w
      [] w.result = "Lost" -> resize(w, w.state.size)
      [] w.result = "OutOfMemory" -> [w EXCEPT !.control_flow = "Exit"]
      [] OTHER -> Call(w, [op |-> "eprintln", err |-> w.result])

\* Event::RedrawRequested(window_id) if window_id == window.id()
on_redraw(v, w, acq) == on_render_result(render(v, update(w), acq))

\* The exit pattern without  state: ElementState::Pressed
is_exit_event_any_key_state(ev) ==
    \/ ev.kind = "CloseRequested"
    \/ /\ ev.kind = "KeyboardInput"
       /\ ev.virtual_keycode = "Escape"

\* The pattern  CloseRequested | KeyboardInput { Pressed, Some(Escape), .. }
is_exit_event(ev) ==
    \/ ev.kind = "CloseRequested"
    \/ /\ ev.kind = "KeyboardInput"
       /\ ev.state = "Pressed"
       /\ ev.virtual_keycode = "Escape"

\* The size handed to State::resize by the Resized and ScaleFactorChanged
\* arms: cast() in src/src/lib.rs, a dereference in src/window/src/lib.rs
resize_arg(v, ev) ==
    LET sz == [width |-> ev.width, height |-> ev.height]
    IN IF v = "src" THEN cast(sz) ELSE sz

\* The window-event match without the ScaleFactorChanged arm
on_window_event_resized_only(v, w, ev) ==
    IF input(w, ev) THEN w
    ELSE IF is_exit_event(ev) THEN [w EXCEPT !.control_flow = "Exit"]
    ELSE IF ev.kind = "Resized"
         THEN resize(w, resize_arg(v, ev))
    ELSE w

\* Event::WindowEvent { ref event, window_id } if window_id == window.id()
on_window_event(v, w, ev) ==
    IF input(w, ev) THEN w
    ELSE IF is_exit_event(ev) THEN [w EXCEPT !.control_flow = "Exit"]
    ELSE IF ev.kind \in {"Resized", "ScaleFactorChanged"}
         THEN resize(w, resize_arg(v, ev))
    ELSE w

\* Event::MainEventsCleared
on_main_events_cleared(w) ==
    [Call(w, [op |-> "request_redraw"]) EXCEPT !.redraw_requested = TRUE]

\* The closure passed to event_loop.run: one call, for event ev
handler(v, w, ev, acq) ==
    CASE ev.kind = "RedrawRequested" /\ ev.window_id = "window" ->
             on_redraw(v, w, acq)
      [] ev.kind = "MainEventsCleared" -> on_main_events_cleared(w)
      [] ev.kind \in {"CloseRequested", "CursorMoved", "KeyboardInput",
                      "Resized", "ScaleFactorChanged"}
           /\ ev.window_id = "window" -> on_window_event(v, w, ev)
      [] OTHER -> w

----------------------------------------------------------------------------
\* The state machine

\* The world the closure sees when it is called; rr is the pending redraw
\* request as the library leaves it before the call
World(rr) ==
    [state |-> state, surface |-> surface, calls |-> <<>>,
     control_flow |-> control_flow, redraw_requested |-> rr,
     result |-> "None"]

HasCall(cs, o) == \E i \in 1 .. Len(cs) : cs[i].op = o

CountCalls(cs, o) == Cardinality({i \in 1 .. Len(cs) : cs[i].op = o})

\* One call of the closure with event ev, and the bookkeeping about it
Deliver(ev, acq, rr) ==
    LET w == handler(variant, World(rr), ev, acq)
    IN /\ state' = w.state
       /\ surface' = w.surface
       /\ calls' = w.calls
       /\ control_flow' = w.control_flow
       /\ redraw_requested' = w.redraw_requested
       /\ result' = w.result
       /\ event' = ev
       /\ needs_reconfigure' =
             IF HasCall(w.calls, "configure") THEN FALSE
             ELSE IF w.result = "Lost" THEN TRUE
             ELSE needs_reconfigure
       /\ close_seen' =
             (close_seen \/ (ev.kind \in {"CloseRequested", "KeyboardInput"}
                             /\ ev.window_id = "window" /\ is_exit_event(ev)))
       /\ oom_seen' = (oom_seen \/ w.result = "OutOfMemory")
       /\ UNCHANGED variant

\* State::new: the window of a default WindowBuilder has a non-empty inner
\* size; the surface is configured with it.
Init ==
    /\ variant \in Variants
    /\ \E wd \in 1 .. MaxDim, ht \in 1 .. MaxDim, f \in SupportedFormats :
          LET cfg == [format |-> f, width |-> wd, height |-> ht,
                      present_mode |-> "Fifo"]
          IN /\ state = [size |-> [width |-> wd, height |-> ht],
                         config |-> cfg, num_vertices |-> Len(VERTICES)]
             /\ surface = cfg
    /\ control_flow = "Poll"
    /\ phase = "events"
    /\ redraw_requested = FALSE
    /\ event = [kind |-> "NewEvents"]
    /\ result = "None"
    /\ calls = <<>>
    /\ needs_reconfigure = FALSE
    /\ close_seen = FALSE
    /\ oom_seen = FALSE

\* A window event of this iteration
WindowEvent ==
    /\ phase = "events"
    /\ \E ev \in WindowEvents : Deliver(ev, "Ok", redraw_requested)
    /\ UNCHANGED phase

\* A RedrawRequested that the platform raises among the window events
\* (the window was exposed), for this window or another one
ExposeRedraw ==
    /\ phase = "events"
    /\ \E id \in WindowIds, acq \in AcquireResults :
          Deliver([kind |-> "RedrawRequested", window_id |-> id], acq,
                  redraw_requested)
    /\ UNCHANGED phase

\* Event::MainEventsCleared: the closure requests the next redraw
MainEventsCleared ==
    /\ phase = "events"
    /\ Deliver([kind |-> "MainEventsCleared"], "Ok", redraw_requested)
    /\ phase' = "redraw"

\* The RedrawRequested that answers window.request_redraw(); the library
\* takes the request off its queue before it calls the closure
RedrawRequested ==
    /\ phase = "redraw"
    /\ redraw_requested
    /\ \E acq \in AcquireResults :
          Deliver([kind |-> "RedrawRequested", window_id |-> "window"], acq,
                  FALSE)
    /\ UNCHANGED phase

\* Event::RedrawEventsCleared ends the iteration; the library then reads
\* *control_flow and either starts the next iteration or leaves the loop
RedrawEventsCleared ==
    /\ phase = "redraw"
    /\ ~redraw_requested
    /\ Deliver([kind |-> "RedrawEventsCleared"], "Ok", redraw_requested)
    /\ phase' = IF control_flow' = "Exit" THEN "destroyed" ELSE "events"

Next ==
    \/ WindowEvent
    \/ ExposeRedraw
    \/ MainEventsCleared
    \/ RedrawRequested
    \/ RedrawEventsCleared

Spec == Init /\ [][Next]_vars

----------------------------------------------------------------------------
\* Properties

\* The closure has just handled a RedrawRequested for its own window, that
\* is, it has just called State::render
OwnRedraw == event.kind = "RedrawRequested" /\ event.window_id = "window"

\* The closure has just handled a Resized or ScaleFactorChanged event for its
\* own window, that is, it has just called State::resize with the event's size
OwnResize ==
    /\ event.kind \in {"Resized", "ScaleFactorChanged"}
    /\ event.window_id = "window"

\* Every configure call in cs carries non-zero dimensions
ConfiguresPositive(cs) ==
    \A i \in 1 .. Len(cs) :
        cs[i].op = "configure" => cs[i].width > 0 /\ cs[i].height > 0

\* C1: a State::resize with a zero width or a zero height leaves the stored
\* size and the stored configuration (width, height, format, present mode) as
\* they were and does not configure the surface.
ZeroResizeIsNoOp ==
    [][ (OwnResize' /\ (event'.width = 0 \/ event'.height = 0))
        => /\ state' = state
           /\ surface' = surface
           /\ ~HasCall(calls', "configure") ]_vars

ZeroResizeHandled ==
    /\ OwnResize
    /\ event.width = 0
    /\ event.height > 0
    /\ calls = <<>>

\* C2: after a Resized or ScaleFactorChanged event for the window with a
\* positive width and height, the stored configuration has the event's width
\* and height and the surface has been configured once, with those values.
PositiveResizeApplied ==
    (OwnResize /\ event.width > 0 /\ event.height > 0)
    => /\ state.config.width = event.width
       /\ state.config.height = event.height
       /\ surface = state.config
       /\ calls = << [op |-> "configure", width |-> event.width,
                      height |-> event.height] >>

PositiveResizeHandled ==
    /\ OwnResize
    /\ event.kind = "ScaleFactorChanged"
    /\ event.width = 1
    /\ event.height = MaxDim
    /\ HasCall(calls, "configure")

\* C3: the stored configuration always has a positive width and a positive
\* height, and the surface is never configured with a zero dimension.
ConfigNeverZero ==
    /\ state.config.width > 0
    /\ state.config.height > 0
    /\ surface.width > 0
    /\ surface.height > 0
    /\ ConfiguresPositive(calls)

ZeroSizeRefused ==
    /\ OwnResize
    /\ event.width = 0
    /\ event.height = 0
    /\ state.config.width > 0
    /\ state.config.height > 0

\* C4: State::render is never called while a Lost result is still waiting for
\* its surface.configure: the reconfigure comes before the next frame.
LostReconfiguredBeforeNextFrame ==
    [][ OwnRedraw' => ~needs_reconfigure ]_vars

LostRecovered ==
    /\ OwnRedraw
    /\ result = "Lost"
    /\ HasCall(calls, "configure")
    /\ ~needs_reconfigure

\* C5 (as claimed): once a close request or an escape press has been handled,
\* State::render is not called again.
NoRenderAfterClose ==
    close_seen => ~HasCall(calls, "get_current_texture")

\* C6 (as claimed): once State::render has returned OutOfMemory, no later
\* event changes the state or makes the closure call anything (render, resize,
\* request_redraw).
NoProcessingAfterOutOfMemory ==
    [][ oom_seen => /\ state' = state
                    /\ surface' = surface
                    /\ calls' = <<>> ]_vars

\* C7: a render that fails with Timeout or Outdated changes neither the
\* control flow nor the stored size and configuration, configures, submits
\* and presents nothing, and the redraw after it calls State::render again.
TransientErrorSkipsFrame ==
    [][ /\ (OwnRedraw' /\ result' \in {"Timeout", "Outdated"})
           => /\ control_flow' = control_flow
              /\ state' = state
              /\ surface' = surface
              /\ ~HasCall(calls', "configure")
              /\ ~HasCall(calls', "submit")
              /\ ~HasCall(calls', "present")
        /\ (OwnRedraw /\ result \in {"Timeout", "Outdated"} /\ OwnRedraw')
           => /\ calls' # <<>>
              /\ calls'[1].op = "get_current_texture" ]_vars

TransientErrorLogged ==
    /\ OwnRedraw
    /\ result = "Timeout"
    /\ control_flow = "Poll"
    /\ HasCall(calls, "eprintln")

\* C8: a redraw makes exactly one acquisition attempt; a failed one submits
\* and presents nothing; a successful one submits exactly one command buffer
\* and then presents the image exactly once.
FrameAllOrNothing ==
    OwnRedraw
    => /\ CountCalls(calls, "get_current_texture") = 1
       /\ result # "Ok"
          => ~HasCall(calls, "submit") /\ ~HasCall(calls, "present")
       /\ result = "Ok"
          => /\ CountCalls(calls, "submit") = 1
             /\ CountCalls(calls, "present") = 1
             /\ \E i, j \in 1 .. Len(calls) :
                   /\ i < j
                   /\ calls[i].op = "submit"
                   /\ calls[i].buffers = 1
                   /\ calls[j].op = "present"

FramePresented ==
    /\ OwnRedraw
    /\ result = "Ok"
    /\ calls[Len(calls)].op = "present"

\* Twice the signed area of the triangle a, b, c: positive when a, b, c are
\* in counter-clockwise order
Orientation(a, b, c) ==
    (b[1] - a[1]) * (c[2] - a[2]) - (c[1] - a[1]) * (b[2] - a[2])

\* C9: a rendered frame has one draw call, over vertices 0..3 and instances
\* 0..1, recorded after the pipeline is bound; the pipeline is a triangle
\* list with counter-clockwise front faces and back-face culling, and the
\* three vertices are in counter-clockwise order.
DrawsOneTriangle ==
    (OwnRedraw /\ result = "Ok")
    => /\ CountCalls(calls, "draw") = 1
       /\ \E i, j \in 1 .. Len(calls) :
             /\ i < j
             /\ calls[i].op = "set_pipeline"
             /\ calls[i].pipeline.topology = "TriangleList"
             /\ calls[i].pipeline.front_face = "Ccw"
             /\ calls[i].pipeline.cull_mode = "Back"
             /\ calls[j].op = "draw"
             /\ calls[j].vertices = <<0, 3>>
             /\ calls[j].instances = <<0, 1>>
       /\ Len(VERTICES) = 3
       /\ Orientation(VERTICES[1].pos, VERTICES[2].pos, VERTICES[3].pos) > 0

TriangleDrawn ==
    /\ OwnRedraw
    /\ result = "Ok"
    /\ variant = "src"
    /\ HasCall(calls, "draw")

\* C10: the control flow goes from Poll to Exit only in a call of the closure
\* for a close request of the window, a press of Escape in the window, or a
\* redraw of the window whose render returned OutOfMemory.
ExitOnlyOnThreeEvents ==
    [][ (control_flow = "Poll" /\ control_flow' = "Exit")
        => \/ event'.kind = "CloseRequested" /\ event'.window_id = "window"
           \/ /\ event'.kind = "KeyboardInput"
              /\ event'.window_id = "window"
              /\ event'.state = "Pressed"
              /\ event'.virtual_keycode = "Escape"
           \/ OwnRedraw' /\ result' = "OutOfMemory" ]_vars

ExitedOnEscape ==
    /\ control_flow = "Exit"
    /\ event.kind = "KeyboardInput"
    /\ event.window_id = "window"
    /\ event.state = "Pressed"
    /\ event.virtual_keycode = "Escape"
    /\ ~oom_seen

\* The stored size and the stored configuration have the same dimensions
SizeIsConfigSize ==
    /\ state.size.width = state.config.width
    /\ state.size.height = state.config.height

\* C11: the stored size always equals the stored configuration's width and
\* height, and a call of the closure for a redraw (State::render, with the
\* recovery from Lost) leaves both as they were.
SizeMatchesConfig ==
    /\ []SizeIsConfigSize
    /\ [][ OwnRedraw' => /\ state'.size = state.size
                         /\ state'.config = state.config ]_vars

SizeAndConfigResized ==
    /\ OwnResize
    /\ event.kind = "Resized"
    /\ event.width = MaxDim
    /\ event.height = 1
    /\ state.size = [width |-> MaxDim, height |-> 1]
    /\ state.config.width = MaxDim
    /\ state.config.height = 1

====
